---- MODULE Spec2Model ----
(***************************************************************************)
(* Model of src/web/error.rs: the Nope error kinds, their conversion into  *)
(* an IronError (status mapping), the Handler implementation that builds   *)
(* the error / search page model for a request, and the conversion of a    *)
(* PoolError into an IronError.                                            *)
(*                                                                         *)
(* A request is represented by what the handler reads of it: the ordered   *)
(* sequence of (key, value) pairs of its URL's query string.               *)
(***************************************************************************)
EXTENDS Naturals, Sequences, FiniteSets, TLC

\* Longest query string (number of pairs) a modelled request carries.
MaxPairs == 2

\* iron::status::Status values used by the file.
NotFound == 404
InternalServerError == 500

\* enum Nope
Nope ==
    { "ResourceNotFound", "BuildNotFound", "CrateNotFound", "OwnerNotFound",
      "VersionNotFound", "NoResults", "InternalServerError" }

\* Keys and values a query-string pair is drawn from.
Keys == { "query", "Query", "queryx", "q" }
Values == { "", "abc", "def", " <i>" }
Pairs == [ key : Keys, value : Values ]
\* The pairs used when a rendering is compared with an earlier one.
RepeatPairs ==
    { [ key |-> "query", value |-> "abc" ], [ key |-> "query", value |-> "def" ],
      [ key |-> "q", value |-> "abc" ] }
\* Calls counted after the call kept for comparison.
MaxLater == 1

\* crate::db::PoolError: opaque failure details of the connection pool.
PoolError == { "FailedToCreate", "ClientError" }

\* Option<T>
None == << >>
Some(x) == << x >>

VARIABLES
    req,     \* query pairs of the request being served
    phase,   \* "receiving": request being read; "handled": a page was built for it
    self,    \* the Nope the handler was last invoked on ("none" before any call)
    resp,    \* the page model last built by the handler
    err,     \* the IronError last produced by a From conversion
    seen     \* one earlier handler call (kind, request, page), for comparison

vars == << req, phase, self, resp, err, seen >>

NoResponse == [ template |-> "none" ]
NoError == [ from |-> "none" ]
NoCall == [ kind |-> "none" ]

\* ErrorPage { title, message, status }
ErrorPage(title, message, status) ==
    [ template |-> "ErrorPage", title |-> title, message |-> message,
      status |-> status ]

\* Search::default(): title and search_query empty, the remaining
\* search-display fields taken together as one value.
SearchDefault ==
    [ template |-> "Search", title |-> "", search_query |-> None,
      status |-> "default", others |-> "default" ]

\* Variant of find: the last matching pair wins.
RECURSIVE find_last(_)
find_last(params) ==
    IF params = << >> THEN None
    ELSE IF params[Len(params)].key = "query" THEN Some(params[Len(params)])
    ELSE find_last(SubSeq(params, 1, Len(params) - 1))

\* Iterator::find(|(key, _)| key == "query") over the query pairs
RECURSIVE find(_)
find(params) ==
    IF params = << >> THEN None
    ELSE IF Head(params).key = "query" THEN Some(Head(params))
    ELSE find(Tail(params))

\* Variant of status_of: the empty search is not treated as an error.
status_of_search_ok(e) ==
    CASE e \in { "ResourceNotFound", "BuildNotFound", "CrateNotFound",
                 "OwnerNotFound", "VersionNotFound" } -> NotFound
      [] e = "NoResults" -> 200
      [] e = "InternalServerError" -> InternalServerError

\* From<Nope> for IronError: the status match
status_of(e) ==
    CASE e \in { "ResourceNotFound", "BuildNotFound", "CrateNotFound",
                 "OwnerNotFound", "VersionNotFound", "NoResults" } -> NotFound
      [] e = "InternalServerError" -> InternalServerError

\* Handler::handle, the six arms that build a generic ErrorPage
ErrorPages ==
    [ ResourceNotFound |->
        ErrorPage("The requested resource does not exist",
                  Some("no such resource"), NotFound),
      BuildNotFound |->
        ErrorPage("The requested build does not exist",
                  Some("no such build"), NotFound),
      CrateNotFound |->
        ErrorPage("The requested crate does not exist",
                  Some("no such crate"), NotFound),
      OwnerNotFound |->
        ErrorPage("The requested owner does not exist",
                  Some("no such owner"), NotFound),
      VersionNotFound |->
        ErrorPage("The requested version does not exist",
                  Some("no such version for this crate"), NotFound),
      InternalServerError |->
        ErrorPage("Internal server error",
                  Some("internal server error"), InternalServerError) ]

\* Variant of error_page: the build arm keeps the crate arm's message.
error_page_copied_message(k) ==
    [ ErrorPages EXCEPT !["BuildNotFound"].message = Some("no such crate") ][k]

\* Variant of error_page: every generic page is a 404.
error_page_always_not_found(k) ==
    [ ErrorPages[k] EXCEPT !.status = NotFound ]

error_page(k) == ErrorPages[k]

\* What an HTML-escaping of a query value yields.
escape(v) == IF v = " <i>" THEN " &lt;i&gt;" ELSE v

\* Variant of no_results: the query value is escaped before it is substituted.
no_results_escaped(params) ==
    LET found == find(params) IN
    IF found # None
    THEN [ SearchDefault EXCEPT
             !.title = "No crates found matching '" \o escape(found[1].value) \o "'",
             !.search_query = Some(escape(found[1].value)),
             !.status = NotFound ]
    ELSE [ SearchDefault EXCEPT
             !.title = "No results given for empty search query",
             !.status = NotFound ]

\* Variant of no_results: without a query the search box is given an empty text.
no_results_empty_text(params) ==
    LET found == find(params) IN
    IF found # None
    THEN [ SearchDefault EXCEPT
             !.title = "No crates found matching '" \o found[1].value \o "'",
             !.search_query = Some(found[1].value),
             !.status = NotFound ]
    ELSE [ SearchDefault EXCEPT
             !.title = "No results given for empty search query",
             !.search_query = Some(""),
             !.status = NotFound ]

\* Variant of no_results: an empty query value counts as no query.
no_results_nonempty_only(params) ==
    LET found == find(params) IN
    IF found # None /\ found[1].value # ""
    THEN [ SearchDefault EXCEPT
             !.title = "No crates found matching '" \o found[1].value \o "'",
             !.search_query = Some(found[1].value),
             !.status = NotFound ]
    ELSE [ SearchDefault EXCEPT
             !.title = "No results given for empty search query",
             !.status = NotFound ]

\* Variant of no_results: without a query a generic page with no message is built.
no_results_generic(params) ==
    LET found == find(params) IN
    IF found # None
    THEN [ SearchDefault EXCEPT
             !.title = "No crates found matching '" \o found[1].value \o "'",
             !.search_query = Some(found[1].value),
             !.status = NotFound ]
    ELSE ErrorPage("No results given for empty search query", None, NotFound)

\* Handler::handle, the Nope::NoResults arm
no_results(params) ==
    LET found == find(params) IN
    IF found # None
    THEN [ SearchDefault EXCEPT
             !.title = "No crates found matching '" \o found[1].value \o "'",
             !.search_query = Some(found[1].value),
             !.status = NotFound ]
    ELSE [ SearchDefault EXCEPT
             !.title = "No results given for empty search query",
             !.status = NotFound ]

\* Handler::handle: the page model built for kind k and query pairs params
handle(k, params) ==
    CASE k = "NoResults" -> no_results(params)
      [] k \in DOMAIN ErrorPages -> error_page(k)

Init ==
    /\ req = << >>
    /\ phase = "receiving"
    /\ self = "none"
    /\ resp = NoResponse
    /\ err = NoError
    /\ seen = NoCall

\* A new request starts; its query string is read pair by pair.
Accept ==
    /\ phase = "handled"
    /\ req' = << >>
    /\ phase' = "receiving"
    /\ UNCHANGED << self, resp, err, seen >>

ReceivePair(pairs) ==
    /\ phase = "receiving"
    /\ Len(req) < MaxPairs
    /\ \E pair \in pairs : req' = Append(req, pair)
    /\ UNCHANGED << phase, self, resp, err, seen >>

\* Variant of Render: the last search page is kept and served again.
RenderCached(k) ==
    /\ self' = k
    /\ resp' = IF k = "NoResults" /\ resp.template = "Search"
               THEN resp ELSE handle(k, req)
    /\ phase' = "handled"
    /\ UNCHANGED << req, err >>

\* Handler::handle invoked on kind k for the current request
Render(k) ==
    /\ self' = k
    /\ resp' = handle(k, req)
    /\ phase' = "handled"
    /\ UNCHANGED << req, err >>

HandleRequest ==
    \E k \in Nope : Render(k) /\ UNCHANGED seen

\* The same call, after which the call may be kept for later comparison.
HandleObserved ==
    \E k \in Nope :
        /\ Render(k)
        /\ seen' \in
              { IF seen = NoCall THEN seen
                ELSE [ seen EXCEPT !.later = IF @ < MaxLater THEN @ + 1 ELSE @ ],
                [ kind |-> k, params |-> req, page |-> resp', later |-> 0 ] }

\* IronError::from(err: Nope)
FromNope ==
    /\ \E e \in Nope :
          err' = [ from |-> "Nope", error |-> e, status |-> status_of(e) ]
    /\ UNCHANGED << req, phase, self, resp, seen >>

\* Variant of FromPoolError: a failed checkout is reported as a missing resource.
FromPoolErrorInspecting ==
    /\ \E e \in PoolError :
          err' = [ from |-> "PoolError", error |-> e,
                   status |-> IF e = "ClientError" THEN NotFound
                              ELSE InternalServerError ]
    /\ UNCHANGED << req, phase, self, resp, seen >>

\* IronError::from(err: PoolError)
FromPoolError ==
    /\ \E e \in PoolError :
          err' = [ from |-> "PoolError", error |-> e, status |-> InternalServerError ]
    /\ UNCHANGED << req, phase, self, resp, seen >>

Next ==
    \/ Accept
    \/ ReceivePair(Pairs)
    \/ HandleRequest
    \/ FromNope
    \/ FromPoolError

Spec == Init /\ [][Next]_vars

NextRepeat ==
    \/ Accept
    \/ ReceivePair(RepeatPairs)
    \/ HandleObserved

SpecRepeat == Init /\ [][NextRepeat]_vars

----------------------------------------------------------------------------
(* Properties *)

\* A page has been built for the current request.
Handled == phase = "handled"

\* The request has a pair whose key is "query".
HasQuery(params) == \E i \in 1..Len(params) : params[i].key = "query"

\* The pairs of the request whose key is "query", in order.
QueryPairs(params) == SelectSeq(params, LAMBDA p : p.key = "query")

NotFoundKinds ==
    { "ResourceNotFound", "BuildNotFound", "CrateNotFound", "OwnerNotFound",
      "VersionNotFound", "NoResults" }

\* C1: converting a Nope into an IronError gives 404 for ResourceNotFound,
\* BuildNotFound, CrateNotFound, OwnerNotFound, VersionNotFound and NoResults,
\* 500 for InternalServerError, and never any other status.
C1_StatusMapping ==
    err.from = "Nope" =>
        /\ err.error \in Nope
        /\ err.error \in NotFoundKinds => err.status = 404
        /\ err.error = "InternalServerError" => err.status = 500
        /\ err.status \in { 404, 500 }

C1_Witness ==
    /\ err.from = "Nope" /\ err.error = "NoResults" /\ err.status = 404
    /\ Len(req) = MaxPairs

\* C2: for each kind other than NoResults the handler builds the generic error
\* page with the title, message and status fixed for that kind, whatever the
\* request holds.
C2_GenericPages ==
    Handled /\ self # "NoResults" =>
        resp =
          CASE self = "ResourceNotFound" ->
                 [ template |-> "ErrorPage",
                   title |-> "The requested resource does not exist",
                   message |-> << "no such resource" >>, status |-> 404 ]
            [] self = "BuildNotFound" ->
                 [ template |-> "ErrorPage",
                   title |-> "The requested build does not exist",
                   message |-> << "no such build" >>, status |-> 404 ]
            [] self = "CrateNotFound" ->
                 [ template |-> "ErrorPage",
                   title |-> "The requested crate does not exist",
                   message |-> << "no such crate" >>, status |-> 404 ]
            [] self = "OwnerNotFound" ->
                 [ template |-> "ErrorPage",
                   title |-> "The requested owner does not exist",
                   message |-> << "no such owner" >>, status |-> 404 ]
            [] self = "VersionNotFound" ->
                 [ template |-> "ErrorPage",
                   title |-> "The requested version does not exist",
                   message |-> << "no such version for this crate" >>,
                   status |-> 404 ]
            [] self = "InternalServerError" ->
                 [ template |-> "ErrorPage",
                   title |-> "Internal server error",
                   message |-> << "internal server error" >>, status |-> 500 ]

C2_Witness ==
    /\ Handled /\ self = "BuildNotFound"
    /\ req = << [ key |-> "query", value |-> "abc" ], [ key |-> "q", value |-> "" ] >>
    /\ resp.message = << "no such build" >>

\* C3: NoResults on a request with a "query" pair builds the search page whose
\* title is "No crates found matching '" + v + "'" and whose search_query is v,
\* v being the value the lookup found, unchanged; status 404, all other fields
\* of the search model at their default.
C3_QueryPresent ==
    Handled /\ self = "NoResults" /\ HasQuery(req) =>
        /\ find(req) # None
        /\ LET v == find(req)[1].value IN
           resp = [ template |-> "Search",
                    title |-> "No crates found matching '" \o v \o "'",
                    search_query |-> << v >>,
                    status |-> 404,
                    others |-> SearchDefault.others ]

C3_Witness ==
    /\ Handled /\ self = "NoResults"
    /\ req = << [ key |-> "q", value |-> "abc" ], [ key |-> "query", value |-> " <i>" ] >>
    /\ resp.title = "No crates found matching ' <i>'"
    /\ resp.search_query = << " <i>" >>

\* C4: NoResults on a request without any "query" pair (an empty query string
\* included) builds the search page titled "No results given for empty search
\* query" with search_query absent, status 404 and all other fields default.
C4_QueryAbsent ==
    Handled /\ self = "NoResults" /\ ~ HasQuery(req) =>
        resp = [ template |-> "Search",
                 title |-> "No results given for empty search query",
                 search_query |-> << >>,
                 status |-> 404,
                 others |-> SearchDefault.others ]

C4_Witness ==
    /\ Handled /\ self = "NoResults"
    /\ req = << [ key |-> "Query", value |-> "abc" ], [ key |-> "queryx", value |-> "def" ] >>
    /\ resp.search_query = << >>

\* C5: the lookup gives the value of the first pair, in order, whose key is
\* exactly "query", and nothing exactly when no pair has that key; pairs with
\* other keys do not change the result, and of two "query" pairs the earlier
\* one wins.
C5_FirstQueryWins ==
    Handled /\ self = "NoResults" =>
        /\ resp.search_query = None <=> ~ HasQuery(req)
        /\ HasQuery(req) =>
              LET first == CHOOSE i \in 1..Len(req) :
                              /\ req[i].key = "query"
                              /\ \A j \in 1..(i - 1) : req[j].key # "query"
              IN resp.search_query = << req[first].value >>
        /\ resp.search_query =
              IF QueryPairs(req) = << >> THEN None
              ELSE << QueryPairs(req)[1].value >>

C5_Witness ==
    /\ Handled /\ self = "NoResults"
    /\ req = << [ key |-> "query", value |-> "abc" ], [ key |-> "query", value |-> "def" ] >>
    /\ resp.search_query = << "abc" >>

\* C6: every PoolError, whatever its detail, becomes an error with status 500;
\* never a 404, never a Nope.
C6_PoolErrorIs500 ==
    err.from = "PoolError" =>
        /\ err.status = 500
        /\ err.error \in PoolError
        /\ err.error \notin Nope

C6_Witness ==
    /\ err.from = "PoolError" /\ err.error = "ClientError" /\ err.status = 500
    /\ Handled

C8_Dispatch ==
    Handled =>
        /\ self \in Nope
        /\ resp.template \in { "ErrorPage", "Search" }
        /\ resp.title # ""
        /\ resp.template = "Search" <=> self = "NoResults"
        /\ resp.template = "ErrorPage" <=> self # "NoResults"
        /\ resp.template = "ErrorPage" => resp.message # None

C8_Witness ==
    /\ Handled /\ self = "NoResults" /\ req = << >>
    /\ resp.template = "Search"

\* C9: the status of the page the handler builds for a kind equals the status
\* the IronError conversion gives that kind.
C9_StatusTablesAgree ==
    Handled => resp.status = status_of(self)

C9_Witness ==
    /\ Handled /\ self = "InternalServerError" /\ resp.status = 500
    /\ err.from = "Nope" /\ err.error = "InternalServerError" /\ err.status = 500

\* C10: for NoResults the empty-search title is built exactly when no pair has
\* the key "query"; a first "query" pair with an empty value gives the title
\* "No crates found matching ''" and search_query present and empty.
C10_EmptyValueIsPresent ==
    Handled /\ self = "NoResults" =>
        /\ resp.title = "No results given for empty search query" <=> ~ HasQuery(req)
        /\ (HasQuery(req) /\ QueryPairs(req)[1].value = "") =>
              /\ resp.title = "No crates found matching ''"
              /\ resp.search_query = << "" >>

C10_Witness ==
    /\ Handled /\ self = "NoResults"
    /\ req = << [ key |-> "query", value |-> "" ] >>
    /\ resp.title = "No crates found matching ''"


====
